---- MODULE Spec2Model ----
(***************************************************************************)
(* The persistence adapters of the school management system:               *)
(*   - SqliteSchoolDB (school_sqlite.py), one sqlite3 connection `con`     *)
(*     whose handlers run several statements and commit at the end;        *)
(*   - DB (db_done.py), one sqlite3 connection `conn` whose every          *)
(*     statement goes through _exec (execute, then commit).                *)
(* A table is the set of its rows.  Both connections run with              *)
(* PRAGMA foreign_keys = ON, so every statement is checked against the     *)
(* schema's keys when it ends; a failing statement is backed out alone and *)
(* raises, the transaction the connection opened implicitly stays open.    *)
(***************************************************************************)
EXTENDS Integers, FiniteSets, Sequences, TLC

\* ------------------------------------------------------------------ inputs
\* The identifiers, names, ages and e-mail addresses the callers pass.
StudentIds    == {1, 2}
InstructorIds == {1, 2}
CourseIds     == {1, 2}
Names         == {"Ann", "Bob"}
Ages          == {20}
Emails        == {"a@x.com", "b@x.com"}
CourseNames   == {"CS101"}
\* the instructor names the callers of DB pass
InstructorNames == {"Ian"}
\* the e-mail addresses the callers of SqliteSchoolDB pass
SqEmails      == {"a@x.com"}

\* the most enrollment rows a run inserts
MaxRegs == 3

\* An optional argument or a nullable column: {} is None / NULL, {x} is x.
Opt(S) == {{}} \cup {{x} : x \in S}
Val(o) == CHOOSE x \in o : TRUE

VARIABLES
    con,    \* SqliteSchoolDB: the tables as self.con sees them (open transaction included)
    disk,   \* SqliteSchoolDB: the tables as last committed to the file
    conn,   \* DB: the tables as self.conn sees them
    dbdisk, \* DB: the tables as last committed
    upserted, \* history: per student id, the fields of its last successful upsert_student
    last,   \* history: the last call, its arguments and whether it returned or raised
    status, \* App (Tk): the text of the status bar, self._status_var
    timers, \* App (Tk): the callbacks root.after has scheduled and not yet run
    now,    \* App (Tk): the time of the event loop, in milliseconds
    school, \* School_DB: the lists self.students, self.instructors, self.courses
    file,   \* School_DB: the content of the JSON file, {} when there is none
    dest,   \* backup_to: the tables of the destination file, {} when it holds none
    combos, \* Qt window: the labels of reg_student_combo and of reg_course_combo
    ui      \* history: the last handler of a window, the form fields it read, the
            \* message box it showed and whether it asked for a confirmation

\* the variables of the two adapters, of the status bar, of School_DB
dbvars  == <<con, disk, conn, dbdisk, upserted>>
uivars  == <<status, timers, now>>
memvars == <<school, file>>
\* the variables of the windows' dialogs
qtvars  == <<dest, ui, combos>>

vars == <<con, disk, conn, dbdisk, upserted, last, status, timers, now, school, file, dest, ui, combos>>

Ids(rows) == {r.id : r \in rows}

\* the outcome of a statement or of a handler: the tables it leaves, and whether it raised
Ok(T)  == [ok |-> TRUE,  db |-> T]
Err(T) == [ok |-> FALSE, db |-> T]

\* ------------------------------------------------- school_sqlite.py: schema
EmptySqlite == [students |-> {}, instructors |-> {}, courses |-> {}, registrations |-> {}]

\* courses.instructor_id REFERENCES instructors, NULL allowed
SqCourseFK(T) == \A c \in T.courses : c.instructor_id \subseteq Ids(T.instructors)

\* foreign keys not enforced for registrations (PRAGMA foreign_keys left off)
SqRegFKOff(T) == TRUE

\* registrations.student_id REFERENCES students, registrations.course_id REFERENCES courses
SqRegFK(T) == \A r \in T.registrations :
                 /\ r.student_id \in Ids(T.students)
                 /\ r.course_id \in Ids(T.courses)

\* a statement that changes T into T2: backed out when a key is duplicated
\* or a foreign key is left dangling when the statement ends
SqStmt(T, T2, duplicate) ==
    IF duplicate \/ ~SqCourseFK(T2) \/ ~SqRegFK(T2) THEN Err(T) ELSE Ok(T2)

\* ------------------------------------------------- school_sqlite.py: create
SqInsertStudent(T, s) ==
    SqStmt(T, [T EXCEPT !.students = @ \cup {s}], s.id \in Ids(T.students))

SqInsertInstructor(T, i) ==
    SqStmt(T, [T EXCEPT !.instructors = @ \cup {i}], i.id \in Ids(T.instructors))

SqInsertCourse(T, c) ==
    SqStmt(T, [T EXCEPT !.courses = @ \cup {c}], c.id \in Ids(T.courses))

\* ------------------------------------------------- school_sqlite.py: update
\* UPDATE students SET <column>=value WHERE student_id=id
SqSetStudent(T, id, column, value) ==
    SqStmt(T,
           [T EXCEPT !.students = {IF s.id = id THEN [s EXCEPT ![column] = value] ELSE s : s \in @}],
           FALSE)

\* UPDATE instructors SET <column>=value WHERE instructor_id=id
SqSetInstructor(T, id, column, value) ==
    SqStmt(T,
           [T EXCEPT !.instructors = {IF i.id = id THEN [i EXCEPT ![column] = value] ELSE i : i \in @}],
           FALSE)

\* UPDATE courses SET <column>=value WHERE course_id=id
SqSetCourse(T, id, column, value) ==
    SqStmt(T,
           [T EXCEPT !.courses = {IF c.id = id THEN [c EXCEPT ![column] = value] ELSE c : c \in @}],
           FALSE)

\* UPDATE registrations SET student_id=new WHERE student_id=old
SqMoveRegsOfStudent(T, new, old) ==
    SqStmt(T,
           [T EXCEPT !.registrations =
               {IF r.student_id = old THEN [r EXCEPT !.student_id = new] ELSE r : r \in @}],
           \E r \in T.registrations :
               /\ r.student_id = old
               /\ [r EXCEPT !.student_id = new] \in T.registrations)

\* UPDATE students SET student_id=new WHERE student_id=old
SqMoveStudent(T, new, old) ==
    SqStmt(T,
           [T EXCEPT !.students = {IF s.id = old THEN [s EXCEPT !.id = new] ELSE s : s \in @}],
           old \in Ids(T.students) /\ new \in Ids(T.students))

\* UPDATE courses SET instructor_id=new WHERE instructor_id=old
SqMoveCoursesOfInstructor(T, new, old) ==
    SqStmt(T,
           [T EXCEPT !.courses =
               {IF c.instructor_id = {old} THEN [c EXCEPT !.instructor_id = {new}] ELSE c : c \in @}],
           FALSE)

\* UPDATE instructors SET instructor_id=new WHERE instructor_id=old
SqMoveInstructor(T, new, old) ==
    SqStmt(T,
           [T EXCEPT !.instructors = {IF i.id = old THEN [i EXCEPT !.id = new] ELSE i : i \in @}],
           old \in Ids(T.instructors) /\ new \in Ids(T.instructors))

\* UPDATE registrations SET course_id=new WHERE course_id=old
SqMoveRegsOfCourse(T, new, old) ==
    SqStmt(T,
           [T EXCEPT !.registrations =
               {IF r.course_id = old THEN [r EXCEPT !.course_id = new] ELSE r : r \in @}],
           \E r \in T.registrations :
               /\ r.course_id = old
               /\ [r EXCEPT !.course_id = new] \in T.registrations)

\* UPDATE courses SET course_id=new WHERE course_id=old
SqMoveCourse(T, new, old) ==
    SqStmt(T,
           [T EXCEPT !.courses = {IF c.id = old THEN [c EXCEPT !.id = new] ELSE c : c \in @}],
           old \in Ids(T.courses) /\ new \in Ids(T.courses))

\* the statements of update_student, in the order the handler runs them; a
\* statement that raises ends the handler with the earlier ones still applied
UpdateStudent(T, id, name, age, email, new_id) ==
    LET rename == new_id # {} /\ new_id # {id}
        r1 == IF name # {} THEN SqSetStudent(T, id, "name", Val(name)) ELSE Ok(T)
        r2 == IF r1.ok /\ age # {} THEN SqSetStudent(r1.db, id, "age", Val(age)) ELSE r1
        r3 == IF r2.ok /\ email # {} THEN SqSetStudent(r2.db, id, "email", Val(email)) ELSE r2
        r4 == IF r3.ok /\ rename THEN SqMoveRegsOfStudent(r3.db, Val(new_id), id) ELSE r3
    IN  IF r4.ok /\ rename THEN SqMoveStudent(r4.db, Val(new_id), id) ELSE r4

\* the statements of update_instructor
UpdateInstructor(T, id, name, age, email, new_id) ==
    LET rename == new_id # {} /\ new_id # {id}
        r1 == IF name # {} THEN SqSetInstructor(T, id, "name", Val(name)) ELSE Ok(T)
        r2 == IF r1.ok /\ age # {} THEN SqSetInstructor(r1.db, id, "age", Val(age)) ELSE r1
        r3 == IF r2.ok /\ email # {} THEN SqSetInstructor(r2.db, id, "email", Val(email)) ELSE r2
        r4 == IF r3.ok /\ rename THEN SqMoveCoursesOfInstructor(r3.db, Val(new_id), id) ELSE r3
    IN  IF r4.ok /\ rename THEN SqMoveInstructor(r4.db, Val(new_id), id) ELSE r4

\* the statements of update_course; instructor_id None skips its statement
UpdateCourse(T, id, name, instructor_id, new_id) ==
    LET rename == new_id # {} /\ new_id # {id}
        r1 == IF name # {} THEN SqSetCourse(T, id, "name", Val(name)) ELSE Ok(T)
        r2 == IF r1.ok /\ instructor_id # {}
              THEN SqSetCourse(r1.db, id, "instructor_id", instructor_id) ELSE r1
        r3 == IF r2.ok /\ rename THEN SqMoveRegsOfCourse(r2.db, Val(new_id), id) ELSE r2
    IN  IF r3.ok /\ rename THEN SqMoveCourse(r3.db, Val(new_id), id) ELSE r3

\* ------------------------------------------------- school_sqlite.py: delete
\* DELETE FROM students with the registrations' ON DELETE CASCADE missing
DeleteStudentNoCascade(T, id) ==
    SqStmt(T, [T EXCEPT !.students = {s \in @ : s.id # id}], FALSE)

\* DELETE FROM students: registrations ON DELETE CASCADE
DeleteStudent(T, id) ==
    SqStmt(T,
           [T EXCEPT !.students = {s \in @ : s.id # id},
                     !.registrations = {r \in @ : r.student_id # id}],
           FALSE)

\* DELETE FROM instructors with courses.instructor_id ON DELETE CASCADE
DeleteInstructorCascade(T, id) ==
    SqStmt(T,
           [T EXCEPT !.instructors = {i \in @ : i.id # id},
                     !.courses = {c \in @ : c.instructor_id # {id}}],
           FALSE)

\* DELETE FROM instructors: courses.instructor_id ON DELETE SET NULL
DeleteInstructor(T, id) ==
    SqStmt(T,
           [T EXCEPT !.instructors = {i \in @ : i.id # id},
                     !.courses = {IF c.instructor_id = {id} THEN [c EXCEPT !.instructor_id = {}] ELSE c
                                  : c \in @}],
           FALSE)

\* DELETE FROM courses with the registrations' ON DELETE CASCADE missing
DeleteCourseNoCascade(T, id) ==
    SqStmt(T, [T EXCEPT !.courses = {c \in @ : c.id # id}], FALSE)

\* DELETE FROM courses: registrations ON DELETE CASCADE
DeleteCourse(T, id) ==
    SqStmt(T,
           [T EXCEPT !.courses = {c \in @ : c.id # id},
                     !.registrations = {r \in @ : r.course_id # id}],
           FALSE)

\* ---------------------------------- school_sqlite.py: enrollment, assignment
\* INSERT OR IGNORE INTO registrations: an existing pair is skipped
RegisterStudentInCourse(T, student_id, course_id) ==
    LET row == [student_id |-> student_id, course_id |-> course_id]
    IN  IF row \in T.registrations THEN Ok(T)
        ELSE SqStmt(T, [T EXCEPT !.registrations = @ \cup {row}], FALSE)

\* UPDATE courses SET instructor_id=? WHERE course_id=?
AssignInstructorToCourse(T, instructor_id, course_id) ==
    SqSetCourse(T, course_id, "instructor_id", instructor_id)

\* ------------------------------------------------- school_sqlite.py: read
\* the students the courses property lists under course cid
EnrolledStudents(T, cid) ==
    {s \in T.students : [student_id |-> s.id, course_id |-> cid] \in T.registrations}

\* the courses property: every course row with the instructor ins_map holds for
\* its instructor_id (none for NULL) and its enrolled students
Courses(T) ==
    {[course_id |-> c.id, course_name |-> c.name,
      instructor |-> {i \in T.instructors : {i.id} = c.instructor_id},
      enrolled_students |-> EnrolledStudents(T, c.id)] : c \in T.courses}

\* ---------------------------------------------- school_sqlite.py: handlers
\* a handler ran its statements with outcome r: self.con.commit() is reached
\* only when none raised
SqFinish(r, call) ==
    /\ con' = r.db
    /\ disk' = IF r.ok THEN r.db ELSE disk
    /\ last' = [call EXCEPT !.ok = r.ok]
    /\ UNCHANGED <<conn, dbdisk, upserted, uivars, memvars, qtvars>>

\* history of a call: refs is how many rows it found when it was made: the rows
\* referencing the entity (update, delete) or the row of the same key (add,
\* upsert, enroll, assign)
Call(op, id, arg, refs) == [op |-> op, id |-> id, arg |-> arg, refs |-> refs, ok |-> TRUE]

RowsOf(rows, id) == Cardinality({r \in rows : r.id = id})
RegsOfStudent(regs, id) == Cardinality({r \in regs : r.student_id = id})
RegsOfCourse(regs, id) == Cardinality({r \in regs : r.course_id = id})
CoursesOfInstructor(courses, id) == Cardinality({c \in courses : c.instructor_id = {id}})
HasPair(regs, student_id, course_id) ==
    IF [student_id |-> student_id, course_id |-> course_id] \in regs THEN 1 ELSE 0

add_student(id, name, age, email) ==
    SqFinish(SqInsertStudent(con, [id |-> id, name |-> name, age |-> age, email |-> email]),
             Call("add_student", id, {}, RowsOf(con.students, id)))

add_instructor(id, name, age, email) ==
    SqFinish(SqInsertInstructor(con, [id |-> id, name |-> name, age |-> age, email |-> email]),
             Call("add_instructor", id, {}, RowsOf(con.instructors, id)))

add_course(id, name, instr_id) ==
    SqFinish(SqInsertCourse(con, [id |-> id, name |-> name, instructor_id |-> instr_id]),
             Call("add_course", id, instr_id, RowsOf(con.courses, id)))

update_student(id, name, age, email, new_id) ==
    SqFinish(UpdateStudent(con, id, name, age, email, new_id),
             Call("update_student", id, new_id, RegsOfStudent(con.registrations, id)))

update_instructor(id, name, age, email, new_id) ==
    SqFinish(UpdateInstructor(con, id, name, age, email, new_id),
             Call("update_instructor", id, new_id, CoursesOfInstructor(con.courses, id)))

update_course(id, name, instructor_id, new_id) ==
    SqFinish(UpdateCourse(con, id, name, instructor_id, new_id),
             Call("update_course", id, new_id, RegsOfCourse(con.registrations, id)))

delete_student(id) ==
    SqFinish(DeleteStudent(con, id), Call("delete_student", id, {}, RegsOfStudent(con.registrations, id)))

delete_instructor(id) ==
    SqFinish(DeleteInstructor(con, id), Call("delete_instructor", id, {}, CoursesOfInstructor(con.courses, id)))

delete_course(id) ==
    SqFinish(DeleteCourse(con, id), Call("delete_course", id, {}, RegsOfCourse(con.registrations, id)))

register_student_in_course(student_id, course_id) ==
    /\ \/ Cardinality(con.registrations) < MaxRegs
       \/ [student_id |-> student_id, course_id |-> course_id] \in con.registrations
    /\ SqFinish(RegisterStudentInCourse(con, student_id, course_id),
                Call("register_student_in_course", student_id, {course_id},
                     HasPair(con.registrations, student_id, course_id)))

assign_instructor_to_course(instructor_id, course_id) ==
    SqFinish(AssignInstructorToCourse(con, instructor_id, course_id),
             Call("assign_instructor_to_course", course_id, instructor_id,
                  RowsOf(con.courses, course_id)))

\* ------------------------------------------------------- db_done.py: schema
EmptyDB == [students |-> {}, instructors |-> {}, courses |-> {}, enrollments |-> {}]

\* courses.instructor_id REFERENCES instructors, NULL allowed
DbCourseFK(T) == \A c \in T.courses : c.instructor_id \subseteq Ids(T.instructors)

\* foreign keys not enforced for enrollments (PRAGMA foreign_keys left off)
DbEnrollFKOff(T) == TRUE

\* enrollments.student_id REFERENCES students, enrollments.course_id REFERENCES courses
DbEnrollFK(T) == \A e \in T.enrollments :
                    /\ e.student_id \in Ids(T.students)
                    /\ e.course_id \in Ids(T.courses)

\* the e-mail is held by any row, the row being overwritten included
DbEmailTakenAnyRow(rows, id, email) == \E r \in rows : r.email = email

\* email TEXT NOT NULL UNIQUE: the e-mail is held by a row of another id
DbEmailTaken(rows, id, email) == \E r \in rows : r.id # id /\ r.email = email

\* a statement that changes T into T2
DbStmt(T, T2, duplicate) ==
    IF duplicate \/ ~DbCourseFK(T2) \/ ~DbEnrollFK(T2) THEN Err(T) ELSE Ok(T2)

\* --------------------------------------------------- db_done.py: statements
\* INSERT OR IGNORE INTO students: an existing row is kept as it is
UpsertStudentIgnore(T, student_id, name, age, email) ==
    LET row == [id |-> student_id, name |-> name, age |-> age, email |-> email]
    IN  IF student_id \in Ids(T.students) \/ DbEmailTaken(T.students, student_id, email)
        THEN Ok(T)
        ELSE DbStmt(T, [T EXCEPT !.students = @ \cup {row}], FALSE)

\* INSERT OR REPLACE INTO students: the row in conflict is deleted first, and
\* its enrollments with it (ON DELETE CASCADE)
UpsertStudentReplace(T, student_id, name, age, email) ==
    LET row == [id |-> student_id, name |-> name, age |-> age, email |-> email]
    IN  DbStmt(T,
               [T EXCEPT !.students = {s \in @ : s.id # student_id} \cup {row},
                         !.enrollments = {e \in @ : e.student_id # student_id}],
               DbEmailTaken(T.students, student_id, email))

\* INSERT ... ON CONFLICT(student_id) DO UPDATE SET name, age, email
UpsertStudent(T, student_id, name, age, email) ==
    LET row == [id |-> student_id, name |-> name, age |-> age, email |-> email]
    IN  DbStmt(T,
               [T EXCEPT !.students = {s \in @ : s.id # student_id} \cup {row}],
               DbEmailTaken(T.students, student_id, email))

\* INSERT ... ON CONFLICT(instructor_id) DO UPDATE SET name, age, email
UpsertInstructor(T, instructor_id, name, age, email) ==
    LET row == [id |-> instructor_id, name |-> name, age |-> age, email |-> email]
    IN  DbStmt(T,
               [T EXCEPT !.instructors = {i \in @ : i.id # instructor_id} \cup {row}],
               DbEmailTaken(T.instructors, instructor_id, email))

\* INSERT ... ON CONFLICT(course_id) DO UPDATE SET course_name, instructor_id
UpsertCourse(T, course_id, course_name, instructor_id) ==
    LET row == [id |-> course_id, name |-> course_name, instructor_id |-> instructor_id]
    IN  DbStmt(T, [T EXCEPT !.courses = {c \in @ : c.id # course_id} \cup {row}], FALSE)

\* UPDATE courses SET instructor_id=? WHERE course_id=?
AssignInstructor(T, course_id, instructor_id) ==
    DbStmt(T,
           [T EXCEPT !.courses =
               {IF c.id = course_id THEN [c EXCEPT !.instructor_id = {instructor_id}] ELSE c : c \in @}],
           FALSE)

\* INSERT INTO enrollments without OR IGNORE: an existing pair raises
EnrollInsert(T, student_id, course_id) ==
    LET row == [student_id |-> student_id, course_id |-> course_id]
    IN  DbStmt(T, [T EXCEPT !.enrollments = @ \cup {row}], row \in T.enrollments)

\* INSERT OR IGNORE INTO enrollments: an existing pair is skipped
Enroll(T, student_id, course_id) ==
    LET row == [student_id |-> student_id, course_id |-> course_id]
    IN  IF row \in T.enrollments THEN Ok(T)
        ELSE DbStmt(T, [T EXCEPT !.enrollments = @ \cup {row}], FALSE)

\* -------------------------------------------------------- db_done.py: lists
\* the rows of a table as ORDER BY <id> returns them
RECURSIVE OrderById(_)
OrderById(rows) ==
    IF rows = {} THEN <<>>
    ELSE LET first == CHOOSE r \in rows : \A q \in rows : r.id <= q.id
         IN  <<first>> \o OrderById(rows \ {first})

\* SELECT student_id, name, age, email FROM students ORDER BY student_id
ListStudents(T) == OrderById(T.students)

\* SELECT s.student_id, s.name, s.email FROM enrollments e JOIN students s ... ORDER BY s.student_id
ListEnrollments(T, course_id) ==
    OrderById({[id |-> s.id, name |-> s.name, email |-> s.email] :
                 s \in {x \in T.students :
                          [student_id |-> x.id, course_id |-> course_id] \in T.enrollments}})

\* ----------------------------------------------------- db_done.py: handlers
\* _exec: execute the statement, then commit; a raise skips the commit
DbFinish(r, call) ==
    /\ conn' = r.db
    /\ dbdisk' = IF r.ok THEN r.db ELSE dbdisk
    /\ last' = [call EXCEPT !.ok = r.ok]
    /\ UNCHANGED <<con, disk, uivars, memvars, qtvars>>

upsert_student(student_id, name, age, email) ==
    LET r == UpsertStudent(conn, student_id, name, age, email)
    IN  /\ DbFinish(r, Call("upsert_student", student_id, {email}, RowsOf(conn.students, student_id)))
        /\ upserted' = IF r.ok
                       THEN [upserted EXCEPT ![student_id] =
                                {[name |-> name, age |-> age, email |-> email]}]
                       ELSE upserted

upsert_instructor(instructor_id, name, age, email) ==
    /\ DbFinish(UpsertInstructor(conn, instructor_id, name, age, email),
                Call("upsert_instructor", instructor_id, {email},
                     RowsOf(conn.instructors, instructor_id)))
    /\ UNCHANGED upserted

upsert_course(course_id, course_name, instructor_id) ==
    /\ DbFinish(UpsertCourse(conn, course_id, course_name, instructor_id),
                Call("upsert_course", course_id, instructor_id, RowsOf(conn.courses, course_id)))
    /\ UNCHANGED upserted

assign_instructor(course_id, instructor_id) ==
    /\ DbFinish(AssignInstructor(conn, course_id, instructor_id),
                Call("assign_instructor", course_id, {instructor_id}, RowsOf(conn.courses, course_id)))
    /\ UNCHANGED upserted

enroll(student_id, course_id) ==
    /\ \/ Cardinality(conn.enrollments) < MaxRegs
       \/ [student_id |-> student_id, course_id |-> course_id] \in conn.enrollments
    /\ DbFinish(Enroll(conn, student_id, course_id),
                Call("enroll", student_id, {course_id},
                     HasPair(conn.enrollments, student_id, course_id)))
    /\ UNCHANGED upserted

\* ------------------------------------------------------------ specification

Init ==
    /\ con = EmptySqlite
    /\ disk = EmptySqlite
    /\ conn = EmptyDB
    /\ dbdisk = EmptyDB
    /\ upserted = [id \in StudentIds |-> {}]
    /\ last = Call("connect", 0, {}, 0)
    /\ status = "Ready"
    /\ timers = <<>>
    /\ now = 0
    /\ school = [students |-> <<>>, instructors |-> <<>>, courses |-> <<>>]
    /\ file = {}
    /\ dest = {}
    /\ combos = [student |-> <<>>, course |-> <<>>]
    /\ ui = [handler |-> "", name |-> <<>>, email |-> <<>>, box |-> {}, asked |-> FALSE]

\* the calls that read or write students, courses and registrations
NextEnroll ==
    \/ \E id \in StudentIds, name \in Names, age \in Ages, email \in SqEmails :
          add_student(id, name, age, email)
    \/ \E id \in CourseIds, name \in CourseNames, instr_id \in Opt(InstructorIds) :
          add_course(id, name, instr_id)
    \/ \E id \in StudentIds, name \in Opt(Names), age \in Opt(Ages), email \in Opt(SqEmails),
          new_id \in Opt(StudentIds) :
          update_student(id, name, age, email, new_id)
    \/ \E id \in CourseIds, name \in Opt(CourseNames), instructor_id \in Opt(InstructorIds),
          new_id \in Opt(CourseIds) :
          update_course(id, name, instructor_id, new_id)
    \/ \E id \in StudentIds : delete_student(id)
    \/ \E id \in CourseIds : delete_course(id)
    \/ \E student_id \in StudentIds, course_id \in CourseIds :
          register_student_in_course(student_id, course_id)

SpecEnroll == Init /\ [][NextEnroll]_vars

\* the calls that read or write instructors and courses
NextTeach ==
    \/ \E id \in InstructorIds, name \in Names, age \in Ages, email \in SqEmails :
          add_instructor(id, name, age, email)
    \/ \E id \in CourseIds, name \in CourseNames, instr_id \in Opt(InstructorIds) :
          add_course(id, name, instr_id)
    \/ \E id \in InstructorIds, name \in Opt(Names), age \in Opt(Ages), email \in Opt(SqEmails),
          new_id \in Opt(InstructorIds) :
          update_instructor(id, name, age, email, new_id)
    \/ \E id \in CourseIds, name \in Opt(CourseNames), instructor_id \in Opt(InstructorIds),
          new_id \in Opt(CourseIds) :
          update_course(id, name, instructor_id, new_id)
    \/ \E id \in InstructorIds : delete_instructor(id)
    \/ \E id \in CourseIds : delete_course(id)
    \/ \E instructor_id \in Opt(InstructorIds), course_id \in CourseIds :
          assign_instructor_to_course(instructor_id, course_id)

SpecTeach == Init /\ [][NextTeach]_vars

\* the calls of DB
NextDB ==
    \/ \E student_id \in StudentIds, name \in Names, age \in Ages, email \in Emails :
          upsert_student(student_id, name, age, email)
    \/ \E instructor_id \in InstructorIds, name \in InstructorNames, age \in Ages, email \in Emails :
          upsert_instructor(instructor_id, name, age, email)
    \/ \E course_id \in CourseIds, course_name \in CourseNames, instructor_id \in Opt(InstructorIds) :
          upsert_course(course_id, course_name, instructor_id)
    \/ \E course_id \in CourseIds, instructor_id \in InstructorIds :
          assign_instructor(course_id, instructor_id)
    \/ \E student_id \in StudentIds, course_id \in CourseIds :
          enroll(student_id, course_id)

SpecDB == Init /\ [][NextDB]_vars

\* ------------------------------------------- school_sqlite.py: ordered reads
\* the sequences that hold every row of a set once
RECURSIVE Orderings(_)
Orderings(rows) ==
    IF rows = {} THEN {<<>>}
    ELSE UNION {{<<r>> \o s : s \in Orderings(rows \ {r})} : r \in rows}

\* the texts the callers pass, as SQLite's BINARY collation orders them
Collation == <<"Ann", "Bob", "CS101", "Ian">>
TextRank(t) == CHOOSE k \in 1..Len(Collation) : Collation[k] = t

\* the results ORDER BY name / ORDER BY course_name can return: ascending by
\* name, rows of equal name in whatever order the engine yields them
OrderByName(rows) ==
    {L \in Orderings(rows) :
        \A j, k \in 1..Len(L) : j < k => TextRank(L[j].name) <= TextRank(L[k].name)}

\* the students property: SELECT ... FROM students ORDER BY name, each row with
\* the course ids reg_map holds for it
Students(T) ==
    {[k \in 1..Len(L) |->
        [id |-> L[k].id, name |-> L[k].name, age |-> L[k].age, email |-> L[k].email,
         registered_courses |-> {r.course_id : r \in {x \in T.registrations :
                                                       x.student_id = L[k].id}}]]
     : L \in OrderByName(T.students)}

\* the instructors property: SELECT ... FROM instructors ORDER BY name, each row
\* with the course ids assigned to it
Instructors(T) ==
    {[k \in 1..Len(L) |->
        [id |-> L[k].id, name |-> L[k].name, age |-> L[k].age, email |-> L[k].email,
         assigned_courses |-> {c.id : c \in {x \in T.courses : x.instructor_id = {L[k].id}}}]]
     : L \in OrderByName(T.instructors)}

\* the order of the courses property: SELECT ... FROM courses ORDER BY course_name
CoursesInOrder(T) ==
    {[k \in 1..Len(L) |-> [id |-> L[k].id, name |-> L[k].name,
                           instructor |-> {i \in T.instructors : {i.id} = L[k].instructor_id},
                           enrolled_students |-> EnrolledStudents(T, L[k].id)]]
     : L \in OrderByName(T.courses)}

\* ------------------------------------------ school_qt.py: Register dropdowns
\* the labels f"{id} - {name}" of a listing
Labels(L) == [k \in 1..Len(L) |-> [id |-> L[k].id, name |-> L[k].name]]

\* _refresh_reg_dropdowns: both dropdowns are cleared and filled from
\* self.db.students and self.db.courses
RegDropdowns(T) ==
    {[student |-> Labels(L), course |-> Labels(K)] : L \in Students(T), K \in CoursesInOrder(T)}

\* an add handler of the Qt window: the adapter's insert r, and when it
\* returned, _refresh_reg_dropdowns and the refresh of the table. hydrates
\* tells that self.db.students returns; when it raises, the student dropdown
\* has been cleared and nothing else is reached
QtAdded(r, call, hydrates) ==
    /\ con' = r.db
    /\ disk' = IF r.ok THEN r.db ELSE disk
    /\ last' = [call EXCEPT !.ok = r.ok]
    /\ combos' \in IF ~r.ok THEN {combos}
                   ELSE IF hydrates THEN RegDropdowns(r.db)
                   ELSE {[combos EXCEPT !.student = <<>>]}
    /\ UNCHANGED <<conn, dbdisk, upserted, uivars, memvars, dest, ui>>

\* ------------------------------------------------ the ages the callers pass
\* the ages typed into the forms and the edit prompts: int() reads a minus sign
AgeInputs == {-1, 20}
\* the names and e-mail addresses typed with them
AgeNames  == {"Ann"}
AgeEmails == {"a@x.com"}

\* school.py validate_age: raises ValueError when age < 0
validate_age(age) == ~(age < 0)

\* school_qt.py add_student: Student(name, age, email, sid) validates the age
\* (Person.__init__) and raises before self.db.add_student is reached
Qt_add_student(id, name, age, email) ==
    IF validate_age(age)
    THEN QtAdded(SqInsertStudent(con, [id |-> id, name |-> name, age |-> age, email |-> email]),
                 Call("add_student", id, {}, RowsOf(con.students, id)),
                 \A s \in con.students : validate_age(s.age))
    ELSE /\ last' = [Call("add_student", id, {}, RowsOf(con.students, id)) EXCEPT !.ok = FALSE]
         /\ UNCHANGED <<dbvars, uivars, memvars, qtvars>>

\* the calls that write an age: the Qt window's add and edit of a student
\* (edit_selected_student passes int(age) to update_student), and the Tk
\* window's save of a student and of an instructor (add_student and
\* add_instructor pass int(self.sage.get()) to upsert_*)
NextAge ==
    \/ \E id \in StudentIds, name \in AgeNames, age \in AgeInputs, email \in AgeEmails :
          Qt_add_student(id, name, age, email)
    \/ \E id \in StudentIds, name \in Opt(AgeNames), age \in Opt(AgeInputs),
          email \in Opt(AgeEmails) :
          update_student(id, name, age, email, {})
    \/ \E student_id \in StudentIds, name \in AgeNames, age \in AgeInputs, email \in AgeEmails :
          upsert_student(student_id, name, age, email)
    \/ \E instructor_id \in InstructorIds, name \in AgeNames, age \in AgeInputs,
          email \in AgeEmails :
          upsert_instructor(instructor_id, name, age, email)

SpecAge == Init /\ [][NextAge]_vars

\* ------------------------------------------------- db_done.py: more lists
\* SELECT instructor_id, name, age, email FROM instructors ORDER BY instructor_id
ListInstructors(T) == OrderById(T.instructors)

\* FROM courses c LEFT JOIN instructors i ON c.instructor_id = i.instructor_id:
\* a course row with every instructor row it matches, or once with NULLs
CoursesLeftJoinInstructors(T) ==
    UNION {LET matches == {i \in T.instructors : c.instructor_id = {i.id}}
           IN  IF matches = {}
               THEN {[id |-> c.id, name |-> c.name,
                      instructor_name |-> {}, instructor_email |-> {}]}
               ELSE {[id |-> c.id, name |-> c.name,
                      instructor_name |-> {i.name}, instructor_email |-> {i.email}]
                     : i \in matches}
           : c \in T.courses}

\* the same SELECT with JOIN in place of LEFT JOIN: a course without an
\* instructor yields no row
ListCoursesInnerJoin(T) ==
    OrderById(UNION {{[id |-> c.id, name |-> c.name,
                       instructor_name |-> {i.name}, instructor_email |-> {i.email}]
                      : i \in {x \in T.instructors : c.instructor_id = {x.id}}}
                     : c \in T.courses})

\* SELECT c.course_id, c.course_name, i.name, i.email ... ORDER BY c.course_id
ListCourses(T) == OrderById(CoursesLeftJoinInstructors(T))

\* ------------------------------------------------ app_tk_done.py: status bar
\* the texts the handlers show, and the delays they pass to _set_status
StatusTexts == {"Student saved", "Enrollment added"}
Delays      == {2000, 2500}
\* the time that passes between two events of the loop
Waits       == {500}

\* the latest time the clock reaches, and the most callbacks pending at once
MaxTime   == 5000
MaxTimers == 2

\* a callback root.after(ms, ...) scheduled: due is when it runs; stale (history)
\* tells that _set_status has been called again since it was scheduled
Timer(due) == [due |-> due, stale |-> FALSE]

\* the pending callback the event loop runs next: the earliest due, the first
\* scheduled among those
NextTimer(ts) ==
    CHOOSE k \in 1..Len(ts) :
       \A j \in 1..Len(ts) : ts[k].due < ts[j].due \/ (ts[k].due = ts[j].due /\ k <= j)

\* the pending callbacks without the k-th
WithoutTimer(ts, k) == [j \in 1..(Len(ts) - 1) |-> IF j < k THEN ts[j] ELSE ts[j + 1]]

\* _set_status(text, ms): set the text; with ms, schedule lambda: set("")
set_status(text, ms) ==
    /\ ms # {} => Len(timers) < MaxTimers
    /\ status' = text
    /\ timers' = LET older == [j \in 1..Len(timers) |-> [timers[j] EXCEPT !.stale = TRUE]]
                 IN  IF ms # {} THEN Append(older, Timer(now + Val(ms))) ELSE older
    /\ UNCHANGED <<now, dbvars, last, memvars, qtvars>>

\* the event loop runs the next callback once it is due: self._status_var.set("")
TimerFires ==
    /\ timers # <<>>
    /\ timers[NextTimer(timers)].due <= now
    /\ status' = ""
    /\ timers' = WithoutTimer(timers, NextTimer(timers))
    /\ UNCHANGED <<now, dbvars, last, memvars, qtvars>>

\* time passes with no callback due
Wait(d) ==
    /\ now + d <= MaxTime
    /\ \A j \in 1..Len(timers) : timers[j].due > now
    /\ now' = now + d
    /\ UNCHANGED <<status, timers, dbvars, last, memvars, qtvars>>

NextStatus ==
    \/ \E text \in StatusTexts, ms \in Opt(Delays) : set_status(text, ms)
    \/ TimerFires
    \/ \E d \in Waits : Wait(d)

SpecStatus == Init /\ [][NextStatus]_vars

\* ------------------------------------------------------ school.py: validation
\* a text is the sequence of its characters
Lower  == {"a", "b", "c", "d", "e", "f", "g", "h", "i", "j", "k", "l", "m",
           "n", "o", "p", "q", "r", "s", "t", "u", "v", "w", "x", "y", "z"}
Upper  == {"A", "B", "C", "D", "E", "F", "G", "H", "I", "J", "K", "L", "M",
           "N", "O", "P", "Q", "R", "S", "T", "U", "V", "W", "X", "Y", "Z"}
Digits == {"0", "1", "2", "3", "4", "5", "6", "7", "8", "9"}

\* [a-zA-Z0-9._%+-], [a-zA-Z0-9.-] and [a-zA-Z]
LocalChars  == Lower \cup Upper \cup Digits \cup {".", "_", "%", "+", "-"}
DomainChars == Lower \cup Upper \cup Digits \cup {".", "-"}
TldChars    == Lower \cup Upper

\* every character of s[from..to] is in the class, and there are at least min
Run(s, from, to, class, min) ==
    /\ to - from + 1 >= min
    /\ \A k \in from..to : s[k] \in class

\* re.match(r'^[a-zA-Z0-9._%+-]+@[a-zA-Z0-9.-]+\.[a-zA-Z]{2,}$', email): at is
\* the position of the @, dot of the \. before the last label, end of the last
\* character matched; $ matches at the end of the text and before a newline
\* that ends it
validate_email(email) ==
    \E at \in 1..Len(email), dot \in 1..Len(email), end \in 1..Len(email) :
       /\ Run(email, 1, at - 1, LocalChars, 1)
       /\ email[at] = "@"
       /\ Run(email, at + 1, dot - 1, DomainChars, 1)
       /\ email[dot] = "."
       /\ Run(email, dot + 1, end, TldChars, 2)
       /\ \/ end = Len(email)
          \/ end = Len(email) - 1 /\ email[Len(email)] = "\n"

\* --------------------------------------------------------- school.py: entities
\* An object is the record of its attributes, a dict the record of its keys; a
\* constructor or from_dict yields {x} when it returns x and {} when it raises.

\* Student.__init__: Person.__init__ validates the e-mail and the age
Student(name, age, email, student_id, registered_courses) ==
    IF validate_email(email) /\ validate_age(age)
    THEN {[name |-> name, _email |-> email, age |-> age, student_id |-> student_id,
           registered_courses |-> IF registered_courses = {} THEN <<>>
                                  ELSE Val(registered_courses)]}
    ELSE {}

\* Instructor.__init__
Instructor(name, age, email, instructor_id, assigned_courses) ==
    IF validate_email(email) /\ validate_age(age)
    THEN {[name |-> name, _email |-> email, age |-> age, instructor_id |-> instructor_id,
           assigned_courses |-> IF assigned_courses = {} THEN <<>>
                                ELSE Val(assigned_courses)]}
    ELSE {}

\* Course.__init__: nothing is validated
Course(course_id, course_name, instructor, enrolled_students) ==
    [course_id |-> course_id, course_name |-> course_name, instructor |-> instructor,
     enrolled_students |-> IF enrolled_students = {} THEN <<>> ELSE Val(enrolled_students)]

\* Person.save_to_dict
Person_save_to_dict(x) == [name |-> x.name, age |-> x.age, email |-> x._email]

\* Student.save_to_dict: data.update adds the two keys
Student_save_to_dict(x) ==
    [student_id |-> x.student_id, registered_courses |-> x.registered_courses]
       @@ Person_save_to_dict(x)

\* Instructor.save_to_dict
Instructor_save_to_dict(x) ==
    [instructor_id |-> x.instructor_id, assigned_courses |-> x.assigned_courses]
       @@ Person_save_to_dict(x)

\* from_dict that leaves registered_courses to the constructor's default
Student_from_dict_NoCourses(data) ==
    IF {"name", "age", "email", "student_id", "registered_courses"} \subseteq DOMAIN data
    THEN Student(data.name, data.age, data.email, data.student_id, {})
    ELSE {}

\* Student.from_dict: a missing key raises KeyError
Student_from_dict(data) ==
    IF {"name", "age", "email", "student_id", "registered_courses"} \subseteq DOMAIN data
    THEN Student(data.name, data.age, data.email, data.student_id, {data.registered_courses})
    ELSE {}

\* Instructor.from_dict
Instructor_from_dict(data) ==
    IF {"name", "age", "email", "instructor_id", "assigned_courses"} \subseteq DOMAIN data
    THEN Instructor(data.name, data.age, data.email, data.instructor_id,
                    {data.assigned_courses})
    ELSE {}

\* Course.save_to_dict: the instructor's dict or None, the students' dicts
Course_save_to_dict(x) ==
    [course_id |-> x.course_id, course_name |-> x.course_name,
     instructor |-> IF x.instructor # {} THEN {Instructor_save_to_dict(Val(x.instructor))}
                    ELSE {},
     enrolled_students |-> [k \in 1..Len(x.enrolled_students) |->
                               Student_save_to_dict(x.enrolled_students[k])]]

\* Course.from_dict: data.get("instructor") is None for a missing key, and
\* None and an empty dict are falsy; data.get("enrolled_students", [])
Course_from_dict(data) ==
    LET given    == /\ "instructor" \in DOMAIN data
                    /\ data.instructor # {}
                    /\ DOMAIN Val(data.instructor) # {}
        instr    == IF given THEN Instructor_from_dict(Val(data.instructor)) ELSE {}
        dicts    == IF "enrolled_students" \in DOMAIN data THEN data.enrolled_students ELSE <<>>
        students == [k \in 1..Len(dicts) |-> Student_from_dict(dicts[k])]
    IN  IF \/ given /\ instr = {}
           \/ \E k \in 1..Len(dicts) : students[k] = {}
           \/ ~({"course_id", "course_name"} \subseteq DOMAIN data)
        THEN {}
        ELSE {Course(data.course_id, data.course_name, instr,
                     {[k \in 1..Len(dicts) |-> Val(students[k])]})}

\* ------------------------------------------------------- school.py: School_DB
\* the arguments the callers of the constructors pass
EntityNames  == {"Ann"}
EntityEmails == {<<"a", "@", "x", ".", "c", "o">>, <<"a", "@", "x">>}
EntityCourseLists == {<<1>>}

\* the most entities the three lists hold together
MaxEntities == 2

Entities(S) == Len(S.students) + Len(S.instructors) + Len(S.courses)

\* the members of a list
Members(list) == {list[k] : k \in 1..Len(list)}

\* save_to_file: the dict json.dump writes; its values are texts, integers,
\* lists, None and dicts with text keys, which json.load reads back as written
Dump(S) ==
    [students    |-> [k \in 1..Len(S.students) |-> Student_save_to_dict(S.students[k])],
     instructors |-> [k \in 1..Len(S.instructors) |-> Instructor_save_to_dict(S.instructors[k])],
     courses     |-> [k \in 1..Len(S.courses) |-> Course_save_to_dict(S.courses[k])]]

\* load_from_file that appends what it reads to the lists it holds
LoadFromFileMerge(S, f) ==
    IF \/ f = {}
       \/ (\E k \in 1..Len(Val(f).students) : Student_from_dict(Val(f).students[k]) = {})
       \/ (\E k \in 1..Len(Val(f).instructors) :
              Instructor_from_dict(Val(f).instructors[k]) = {})
       \/ (\E k \in 1..Len(Val(f).courses) : Course_from_dict(Val(f).courses[k]) = {})
    THEN Err(S)
    ELSE Ok([students    |-> S.students \o
                              [k \in 1..Len(Val(f).students) |->
                                  Val(Student_from_dict(Val(f).students[k]))],
             instructors |-> S.instructors \o
                              [k \in 1..Len(Val(f).instructors) |->
                                  Val(Instructor_from_dict(Val(f).instructors[k]))],
             courses     |-> S.courses \o
                              [k \in 1..Len(Val(f).courses) |->
                                  Val(Course_from_dict(Val(f).courses[k]))]])

\* load_from_file: open and json.load raise when there is no file; then the
\* three lists are built and assigned one after the other, and a from_dict
\* that raises ends the call with the lists assigned so far replaced
LoadFromFile(S, f) ==
    IF f = {} THEN Err(S)
    ELSE LET data == Val(f)
             ss == [k \in 1..Len(data.students) |-> Student_from_dict(data.students[k])]
             is == [k \in 1..Len(data.instructors) |-> Instructor_from_dict(data.instructors[k])]
             cs == [k \in 1..Len(data.courses) |-> Course_from_dict(data.courses[k])]
             S1 == [S  EXCEPT !.students = [k \in 1..Len(ss) |-> Val(ss[k])]]
             S2 == [S1 EXCEPT !.instructors = [k \in 1..Len(is) |-> Val(is[k])]]
             S3 == [S2 EXCEPT !.courses = [k \in 1..Len(cs) |-> Val(cs[k])]]
         IN  IF \E k \in 1..Len(ss) : ss[k] = {} THEN Err(S)
             ELSE IF \E k \in 1..Len(is) : is[k] = {} THEN Err(S1)
             ELSE IF \E k \in 1..Len(cs) : cs[k] = {} THEN Err(S2)
             ELSE Ok(S3)

\* a call on School_DB ended: the lists it leaves, the file, and the history
MemFinish(r, f, op) ==
    /\ school' = r.db
    /\ file' = f
    /\ last' = [Call(op, 0, {}, Entities(school)) EXCEPT !.ok = r.ok]
    /\ UNCHANGED <<dbvars, uivars, qtvars>>

\* Student(...) built by the caller, then School_DB.add_student appends it
School_add_student(name, age, email, student_id, registered_courses) ==
    LET s == Student(name, age, email, student_id, registered_courses)
    IN  /\ Entities(school) < MaxEntities
        /\ MemFinish(IF s = {} THEN Err(school)
                     ELSE Ok([school EXCEPT !.students = Append(@, Val(s))]),
                     file, "add_student")

\* Instructor(...) built by the caller, then School_DB.add_instructor
School_add_instructor(name, age, email, instructor_id, assigned_courses) ==
    LET i == Instructor(name, age, email, instructor_id, assigned_courses)
    IN  /\ Entities(school) < MaxEntities
        /\ MemFinish(IF i = {} THEN Err(school)
                     ELSE Ok([school EXCEPT !.instructors = Append(@, Val(i))]),
                     file, "add_instructor")

\* Course(...) built by the caller, then School_DB.add_course
School_add_course(course_id, course_name, instructor, enrolled_students) ==
    /\ Entities(school) < MaxEntities
    /\ MemFinish(Ok([school EXCEPT !.courses =
                        Append(@, Course(course_id, course_name, instructor, enrolled_students))]),
                 file, "add_course")

save_to_file == MemFinish(Ok(school), {Dump(school)}, "save_to_file")

load_from_file == MemFinish(LoadFromFile(school, file), file, "load_from_file")

\* the students and instructors a caller can build
StudentObjects ==
    UNION {Student(name, age, email, id, {courses}) :
              name \in EntityNames, age \in AgeInputs, email \in EntityEmails,
              id \in StudentIds, courses \in EntityCourseLists}
InstructorObjects ==
    UNION {Instructor(name, age, email, 1, {courses}) :
              name \in EntityNames, age \in AgeInputs, email \in EntityEmails,
              courses \in EntityCourseLists}

\* the students a caller enrolls in a course it builds: none, or every one
EnrolledLists == {<<>>, <<CHOOSE s \in StudentObjects : s.student_id = 1,
                          CHOOSE s \in StudentObjects : s.student_id = 2>>}

\* a file some other program wrote, whose second student has a negative age
ForeignFile ==
    [students    |-> <<[name |-> "Ann", age |-> 20, email |-> <<"a", "@", "x", ".", "c", "o">>,
                        student_id |-> 1, registered_courses |-> <<1>>],
                       [name |-> "Ann", age |-> -1, email |-> <<"a", "@", "x", ".", "c", "o">>,
                        student_id |-> 2, registered_courses |-> <<>>]>>,
     instructors |-> <<>>,
     courses     |-> <<>>]

\* a file whose student is well-formed and whose instructor has an e-mail
\* that validate_email rejects
ForeignFileBadInstructor ==
    [students    |-> <<[name |-> "Ann", age |-> 20, email |-> <<"a", "@", "x", ".", "c", "o">>,
                        student_id |-> 2, registered_courses |-> <<>>]>>,
     instructors |-> <<[name |-> "Ann", age |-> 20, email |-> <<"a", "@", "x">>,
                        instructor_id |-> 1, assigned_courses |-> <<>>]>>,
     courses     |-> <<>>]

ForeignFiles == {ForeignFile, ForeignFileBadInstructor}

\* the file is replaced from outside the program
FileWritten(f) ==
    /\ file # {f}
    /\ file' = {f}
    /\ last' = Call("file replaced", 0, {}, Entities(school))
    /\ UNCHANGED <<school, dbvars, uivars, qtvars>>

NextSchool ==
    \/ \E name \in EntityNames, age \in AgeInputs, email \in EntityEmails,
          student_id \in StudentIds, courses \in EntityCourseLists :
          School_add_student(name, age, email, student_id, {courses})
    \/ \E name \in EntityNames, age \in AgeInputs, email \in EntityEmails,
          courses \in EntityCourseLists :
          School_add_instructor(name, age, email, 1, {courses})
    \/ \E course_id \in CourseIds, course_name \in CourseNames,
          instructor \in Opt(InstructorObjects), students \in EnrolledLists :
          School_add_course(course_id, course_name, instructor, {students})
    \/ save_to_file
    \/ load_from_file
    \/ \E f \in ForeignFiles : FileWritten(f)

SpecSchool == Init /\ [][NextSchool]_vars

\* ------------------------------------------------ school_sqlite.py: backup_to
\* backup_to(dest_path): the statements of self.con.iterdump() run on the
\* destination: CREATE TABLE <name>(...) for each of the four tables, then the
\* INSERTs of the rows self.con reads.  A destination that holds the tables
\* already raises on the first CREATE TABLE; the with block rolls back.
BackupTo(T, D) == IF D # {} THEN Err(D) ELSE Ok({T})

\* the Qt window's Backup: the path the dialog returns is passed to backup_to
backup_to ==
    LET r == BackupTo(con, dest)
    IN  /\ dest' = r.db
        /\ last' = [Call("backup_to", 0, {}, Cardinality(dest)) EXCEPT !.ok = r.ok]
        /\ UNCHANGED <<dbvars, uivars, memvars, ui, combos>>

\* the calls that fill the store, and its backup
NextBackup ==
    \/ \E id \in StudentIds, name \in AgeNames, age \in Ages, email \in SqEmails :
          add_student(id, name, age, email)
    \/ \E id \in CourseIds, name \in CourseNames : add_course(id, name, {})
    \/ \E student_id \in StudentIds, course_id \in CourseIds :
          register_student_in_course(student_id, course_id)
    \/ \E id \in StudentIds : delete_student(id)
    \/ backup_to

SpecBackup == Init /\ [][NextBackup]_vars

\* ------------------------------------------------------ app_tk_done.py: forms
\* the texts typed in the Name and Email entries, the number picked as the
\* course's instructor (0: none), the answer to a confirmation, and the time
\* the user lets pass between two clicks
TkNames   == {<<" ">>, <<"A", "n">>}
TkEmails  == {<<>>, <<"a", "@", "x">>, <<" ", "a", "@", "x", ".", "c", "o">>,
              <<"b", "@", "x", ".", "c", "o">>}
TkIds     == {1}
TkInstrs  == {0, 1}
TkWaits   == {2500}

\* str.strip(): without the leading and the trailing whitespace
Whitespace == {" ", "\t", "\n", "\r", "\f"}
strip(s) ==
    LET keep == {k \in 1..Len(s) : s[k] \notin Whitespace}
    IN  IF keep = {} THEN <<>>
        ELSE SubSeq(s, CHOOSE k \in keep : \A j \in keep : k <= j,
                       CHOOSE k \in keep : \A j \in keep : j <= k)

\* nonempty(*strings): all((s or "").strip() != "" for s in strings)
nonempty(strings) == \A k \in 1..Len(strings) : strip(strings[k]) # <<>>

\* EMAIL_RE.fullmatch(s): the whole of s is local@domain.tld
EMAIL_RE_fullmatch(s) ==
    \E at \in 1..Len(s), dot \in 1..Len(s) :
       /\ Run(s, 1, at - 1, LocalChars, 1)
       /\ s[at] = "@"
       /\ Run(s, at + 1, dot - 1, DomainChars, 1)
       /\ s[dot] = "."
       /\ Run(s, dot + 1, Len(s), TldChars, 2)

\* is_valid_email without the pattern: any text that is not blank
is_valid_email_nonblank(email) == strip(email) # <<>>

\* is_valid_email(email): EMAIL_RE.fullmatch((email or "").strip())
is_valid_email(email) == EMAIL_RE_fullmatch(strip(email))

\* what a handler leaves in the history of the window
Form(handler, name, email, box, asked) ==
    [handler |-> handler, name |-> name, email |-> email, box |-> box, asked |-> asked]

\* messagebox.showwarning(...); return: nothing else is touched
TkWarning(handler, name, email, asked) ==
    /\ ui' = Form(handler, name, email, {"warning"}, asked)
    /\ UNCHANGED <<dbvars, last, uivars, memvars, dest, combos>>

\* the try block of a handler: the adapter's call r (_exec commits unless it
\* raised), refresh, _set_status(text, 2500); except: messagebox.showerror
TkCall(handler, name, email, asked, r, call, text) ==
    /\ Len(timers) < MaxTimers
    /\ conn' = r.db
    /\ dbdisk' = IF r.ok THEN r.db ELSE dbdisk
    /\ last' = [call EXCEPT !.ok = r.ok]
    /\ status' = IF r.ok THEN text ELSE status
    /\ timers' = IF r.ok
                 THEN Append([j \in 1..Len(timers) |-> [timers[j] EXCEPT !.stale = TRUE]],
                             Timer(now + 2500))
                 ELSE timers
    /\ ui' = Form(handler, name, email, IF r.ok THEN {} ELSE {"error"}, asked)
    /\ UNCHANGED <<con, disk, now, memvars, dest, combos>>

\* App.add_student: Save Student
App_add_student(sid, sname, sage, semail) ==
    LET name  == strip(sname)
        email == strip(semail)
        r     == UpsertStudent(conn, sid, name, sage, email)
    IN  IF ~nonempty(<<name, email>>) \/ ~is_valid_email(email)
        THEN TkWarning("add_student", sname, semail, FALSE)
        ELSE /\ TkCall("add_student", sname, semail, FALSE, r,
                       Call("upsert_student", sid, {email}, RowsOf(conn.students, sid)),
                       "Student saved")
             /\ upserted' = IF r.ok
                            THEN [upserted EXCEPT ![sid] =
                                     {[name |-> name, age |-> sage, email |-> email]}]
                            ELSE upserted

\* App.add_instructor: Save Instructor
App_add_instructor(iid, iname, iage, iemail) ==
    LET name  == strip(iname)
        email == strip(iemail)
    IN  IF ~nonempty(<<name, email>>) \/ ~is_valid_email(email)
        THEN TkWarning("add_instructor", iname, iemail, FALSE)
        ELSE /\ TkCall("add_instructor", iname, iemail, FALSE,
                       UpsertInstructor(conn, iid, name, iage, email),
                       Call("upsert_instructor", iid, {email}, RowsOf(conn.instructors, iid)),
                       "Instructor saved")
             /\ UNCHANGED upserted

\* App.save_course: Save Course; the instructor picked is passed on as it is
App_save_course(cid, cname, cinstr) ==
    LET name  == strip(cname)
        instr == IF cinstr # 0 THEN {cinstr} ELSE {}
    IN  IF ~nonempty(<<name>>)
        THEN TkWarning("save_course", cname, <<>>, FALSE)
        ELSE /\ TkCall("save_course", cname, <<>>, FALSE,
                       UpsertCourse(conn, cid, name, instr),
                       Call("upsert_course", cid, instr, RowsOf(conn.courses, cid)),
                       "Course saved")
             /\ UNCHANGED upserted

\* time passes between two clicks, with no callback due
TkWait == \E d \in TkWaits : Wait(d)

\* the three Save buttons, and the status bar's clock
NextTkSave ==
    \/ \E sid \in TkIds, sname \in TkNames, sage \in Ages, semail \in TkEmails :
          App_add_student(sid, sname, sage, semail)
    \/ \E iid \in TkIds, iname \in TkNames, iage \in Ages, iemail \in TkEmails :
          App_add_instructor(iid, iname, iage, iemail)
    \/ \E cid \in TkIds, cname \in TkNames, cinstr \in TkInstrs :
          App_save_course(cid, cname, cinstr)
    \/ TimerFires
    \/ TkWait

SpecTkSave == Init /\ [][NextTkSave]_vars

\* ------------------------------------------------- the two e-mail validators
\* the texts the validators are given: a core between two pads
EmailCores == {<<"a", "@", "b", ".", "c", "o">>, <<"a", "@", "b", ".", "c">>,
               <<"a", "@", "b">>, <<"@", "b", ".", "c", "o">>,
               <<"a", "b", ".", "c", "o">>, <<"a", " ", "@", "b", ".", "c", "o">>}
EmailPads  == {<<>>, <<" ">>, <<"\n">>, <<"\t">>, <<"x">>}
EmailTexts == {pre \o core \o post : pre \in EmailPads, core \in EmailCores, post \in EmailPads}

\* validate_email(s) called: ok tells that it returned True, not ok that it raised
call_validate_email(s) ==
    /\ last' = [Call("validate_email", 0, s, 0) EXCEPT !.ok = validate_email(s)]
    /\ UNCHANGED <<dbvars, uivars, memvars, qtvars>>

\* is_valid_email(s) called: ok is the boolean it returned
call_is_valid_email(s) ==
    /\ last' = [Call("is_valid_email", 0, s, 0) EXCEPT !.ok = is_valid_email(s)]
    /\ UNCHANGED <<dbvars, uivars, memvars, qtvars>>

NextEmail ==
    \/ \E s \in EmailTexts : call_validate_email(s)
    \/ \E s \in EmailTexts : call_is_valid_email(s)

SpecEmail == Init /\ [][NextEmail]_vars

\* ------------------------------------------- app_tk_done.py: Assign Instructor
\* the instructor ids typed in the forms (0 in the course form: none), and
\* the e-mails of the instructors
TkInstrIds    == {1, 2}
TkInstrPicks  == {0, 1, 2}
TkInstrEmails == {<<"a", "@", "x", ".", "c", "o">>, <<"b", "@", "x", ".", "c", "o">>}
TkCourseNames == {<<"C", "S">>}

\* App.assign_instr: Assign Instructor; answer is what the user replies to
\* _confirm("Assign this instructor to the course?")
App_assign_instr(cid, cinstr, answer) ==
    IF cinstr = 0
    THEN TkWarning("assign_instr", <<>>, <<>>, FALSE)
    ELSE IF ~answer
    THEN /\ ui' = Form("assign_instr", <<>>, <<>>, {}, TRUE)
         /\ UNCHANGED <<dbvars, last, uivars, memvars, dest, combos>>
    ELSE /\ TkCall("assign_instr", <<>>, <<>>, TRUE,
                   AssignInstructor(conn, cid, cinstr),
                   Call("assign_instructor", cid, {cinstr}, RowsOf(conn.courses, cid)),
                   "Instructor assigned")
         /\ UNCHANGED upserted

\* the instructors' and the courses' forms, and the status bar's clock
NextTkAssign ==
    \/ \E iid \in TkInstrIds, iname \in TkCourseNames, iage \in Ages, iemail \in TkInstrEmails :
          App_add_instructor(iid, iname, iage, iemail)
    \/ \E cid \in TkIds, cname \in TkCourseNames, cinstr \in TkInstrPicks :
          App_save_course(cid, cname, cinstr)
    \/ \E cid \in TkIds, cinstr \in TkInstrPicks, answer \in BOOLEAN :
          App_assign_instr(cid, cinstr, answer)
    \/ TimerFires
    \/ TkWait

SpecTkAssign == Init /\ [][NextTkAssign]_vars

\* ------------------------------------------- school_qt.py: Edit Selected Course
\* what the user types at the "Instructor Name (blank = none)" prompt: {} is a
\* blank text, "Zed" the name of no instructor
PromptNames == Opt(Names \cup {"Zed"})

\* edit_selected_course: c is the selected course, cid, cname and iname the
\* answers to the three prompts. The instructor is the first of the listing
\* with that name (any of them: the listing's order among equal names is
\* open); with none the handler raises before it calls the adapter. The name
\* and the instructor are updated and committed first, then the id if changed.
edit_selected_course(c, cid, cname, iname) ==
    LET named == {x \in con.instructors : {x.name} = iname}
        form  == [handler |-> "edit_selected_course", name |-> cname, email |-> <<>>,
                  box |-> {}, asked |-> FALSE, instructor |-> iname]
    IN  /\ c \in con.courses
        /\ IF iname # {} /\ named = {}
           THEN /\ ui' = form
                /\ UNCHANGED <<dbvars, last, uivars, memvars, dest, combos>>
           ELSE \E instr_id \in IF iname = {} THEN {{}} ELSE {{x.id} : x \in named} :
                   LET r1 == UpdateCourse(con, c.id, {cname}, instr_id, {})
                       r2 == IF r1.ok /\ cid # c.id
                             THEN UpdateCourse(r1.db, c.id, {}, {}, {cid}) ELSE r1
                   IN  /\ con' = r2.db
                       /\ disk' = IF r2.ok THEN r2.db ELSE IF r1.ok THEN r1.db ELSE disk
                       /\ last' = [Call("update_course", c.id, IF cid # c.id THEN {cid} ELSE {},
                                        RegsOfCourse(con.registrations, c.id))
                                   EXCEPT !.ok = r2.ok]
                       /\ ui' = form
                       /\ UNCHANGED <<conn, dbdisk, upserted, uivars, memvars, dest, combos>>

\* the instructors and the courses added, and the courses edited in the window
NextCourseEdit ==
    \/ \E id \in InstructorIds, name \in Names, age \in Ages, email \in SqEmails :
          add_instructor(id, name, age, email)
    \/ \E id \in CourseIds, name \in CourseNames, instr_id \in Opt(InstructorIds) :
          add_course(id, name, instr_id)
    \/ \E c \in con.courses, cid \in CourseIds, cname \in CourseNames, iname \in PromptNames :
          edit_selected_course(c, cid, cname, iname)

SpecCourseEdit == Init /\ [][NextCourseEdit]_vars

\* ------------------------------------------ school_sqlite.py: hydrating reads
\* the students property: every row is passed to Student(...), whose
\* validation raises out of the property; {} when it raises, else the listing
students_property(T) ==
    IF \A r \in T.students : Student(r.name, r.age, r.email, r.id, {}) # {}
    THEN {Students(T)} ELSE {}

\* the instructors property: every row is passed to Instructor(...)
instructors_property(T) ==
    IF \A r \in T.instructors : Instructor(r.name, r.age, r.email, r.id, {}) # {}
    THEN {Instructors(T)} ELSE {}

\* the courses property reads self.instructors and self.students first
courses_property(T) ==
    IF instructors_property(T) # {} /\ students_property(T) # {}
    THEN {CoursesInOrder(T)} ELSE {}

\* school_qt.py add_student with the e-mail as the text typed: Student(name,
\* age, email, sid) raises before self.db.add_student is reached
Qt_add_student_typed(id, name, age, email) ==
    IF Student(name, age, strip(email), id, {}) # {}
    THEN QtAdded(SqInsertStudent(con, [id |-> id, name |-> name, age |-> age,
                                       email |-> strip(email)]),
                 Call("add_student", id, {}, RowsOf(con.students, id)),
                 students_property(con) # {})
    ELSE /\ last' = [Call("add_student", id, {}, RowsOf(con.students, id)) EXCEPT !.ok = FALSE]
         /\ UNCHANGED <<dbvars, uivars, memvars, qtvars>>

\* edit_selected_student: s is the selected student, the rest the answers to
\* the four prompts, passed to update_student as they are; then
\* refresh_students_table reads self.db.students, and whatever raised is
\* shown by QMessageBox.critical
edit_selected_student(s, name, age, email, sid) ==
    LET new_id == IF sid # s.id THEN {sid} ELSE {}
        r      == UpdateStudent(con, s.id, {name}, {age}, {strip(email)}, new_id)
        read   == IF r.ok THEN students_property(r.db) ELSE {}
    IN  /\ s \in con.students
        /\ con' = r.db
        /\ disk' = IF r.ok THEN r.db ELSE disk
        /\ last' = [Call("update_student", s.id, new_id, RegsOfStudent(con.registrations, s.id))
                    EXCEPT !.ok = r.ok]
        /\ ui' = Form("edit_selected_student", name, email, IF read = {} THEN {"error"} ELSE {}, FALSE)
        /\ UNCHANGED <<conn, dbdisk, upserted, uivars, memvars, dest, combos>>

\* the students added, edited and deleted in the Qt window
NextRead ==
    \/ \E id \in StudentIds, name \in AgeNames, age \in AgeInputs, email \in EntityEmails :
          Qt_add_student_typed(id, name, age, email)
    \/ \E s \in con.students, name \in AgeNames, age \in AgeInputs, email \in EntityEmails,
          sid \in StudentIds :
          edit_selected_student(s, name, age, email, sid)
    \/ \E id \in StudentIds : delete_student(id)

SpecRead == Init /\ [][NextRead]_vars

\* ------------------------------------------------ school_qt.py: Register
\* the course ids, the e-mails and the instructor names typed in this part
RegCourseIds  == {1}
RegEmails     == {<<"a", "@", "x", ".", "c", "o">>}
RegInstrNames == Opt({"Ian"})

\* school_qt.py add_course: the instructor is looked up by name (blank: none);
\* a name of no instructor raises before self.db.add_course is reached
Qt_add_course(cid, cname, iname) ==
    LET named == {i \in con.instructors : {i.name} = iname}
    IN  IF iname # {} /\ named = {}
        THEN /\ last' = [Call("add_course", cid, {}, RowsOf(con.courses, cid)) EXCEPT !.ok = FALSE]
             /\ UNCHANGED <<dbvars, uivars, memvars, qtvars>>
        ELSE \E instr \in IF iname = {} THEN {{}} ELSE {{i.id} : i \in named} :
                QtAdded(SqInsertCourse(con, [id |-> cid, name |-> cname, instructor_id |-> instr]),
                        Call("add_course", cid, instr, RowsOf(con.courses, cid)),
                        students_property(con) # {})

\* delete_selected_student: s is the selected student, answer the reply to
\* "Delete ...?"; the tables are refreshed, the dropdowns are not
delete_selected_student(s, answer) ==
    LET r == DeleteStudent(con, s.id)
    IN  /\ s \in con.students
        /\ ui' = Form("delete_selected_student", s.name, <<>>, {}, TRUE)
        /\ IF answer
           THEN /\ con' = r.db
                /\ disk' = IF r.ok THEN r.db ELSE disk
                /\ last' = [Call("delete_student", s.id, {}, RegsOfStudent(con.registrations, s.id))
                            EXCEPT !.ok = r.ok]
                /\ UNCHANGED <<conn, dbdisk, upserted, uivars, memvars, dest, combos>>
           ELSE UNCHANGED <<dbvars, last, uivars, memvars, dest, combos>>

\* the positions the user can have selected in a dropdown (1 is index 0); an
\* empty dropdown has currentIndex() -1, which reads the last of the listing
Picks(items, listing) == IF items = <<>> THEN {Len(listing)} ELSE 1..Len(items)

\* what register_student_in_course leaves in the history: the labels shown at
\* the two selected positions, and the entities read there, each {} or {x}
Registered(shown, read, box) ==
    [handler |-> "register_student_in_course", name |-> <<>>, email |-> <<>>,
     box |-> box, asked |-> FALSE, shown |-> shown, read |-> read]

\* school_qt.py register_student_in_course: si and ci are the positions
\* selected in the dropdowns; the student and the course are read at those
\* positions of self.db.students and self.db.courses
Qt_register_student_in_course(si, ci) ==
    IF con.students = {} \/ con.courses = {}
    THEN /\ ui' = Registered(<<{}, {}>>, <<{}, {}>>, {"warning"})
         /\ UNCHANGED <<dbvars, last, uivars, memvars, dest, combos>>
    ELSE \E L \in Students(con), K \in CoursesInOrder(con) :
            LET shown == <<IF combos.student = <<>> THEN {} ELSE {combos.student[si]},
                           IF combos.course = <<>> THEN {} ELSE {combos.course[ci]}>>
            IN  /\ si \in Picks(combos.student, L)
                /\ ci \in Picks(combos.course, K)
                /\ IF si > Len(L) \/ ci > Len(K)
                   THEN /\ ui' = Registered(shown, <<{}, {}>>, {"IndexError"})
                        /\ UNCHANGED <<dbvars, last, uivars, memvars, dest, combos>>
                   ELSE LET r == RegisterStudentInCourse(con, L[si].id, K[ci].id)
                        IN  /\ con' = r.db
                            /\ disk' = IF r.ok THEN r.db ELSE disk
                            /\ last' = [Call("register_student_in_course", L[si].id, {K[ci].id},
                                             HasPair(con.registrations, L[si].id, K[ci].id))
                                        EXCEPT !.ok = r.ok]
                            /\ ui' = Registered(shown, <<{Labels(L)[si]}, {Labels(K)[ci]}>>,
                                                IF r.ok THEN {} ELSE {"error"})
                            /\ UNCHANGED <<conn, dbdisk, upserted, uivars, memvars, dest, combos>>

\* the students and the courses added, the students edited (the id prompt
\* left as it is) and deleted, and the registrations made in the Qt window
NextRegister ==
    \/ \E id \in StudentIds, name \in Names, age \in Ages, email \in RegEmails :
          Qt_add_student_typed(id, name, age, email)
    \/ \E cid \in RegCourseIds, cname \in CourseNames, iname \in RegInstrNames :
          Qt_add_course(cid, cname, iname)
    \/ \E s \in con.students, name \in Names, age \in Ages, email \in RegEmails :
          edit_selected_student(s, name, age, email, s.id)
    \/ \E s \in con.students, answer \in BOOLEAN : delete_selected_student(s, answer)
    \/ \E si \in 1..Cardinality(StudentIds), ci \in 1..Cardinality(RegCourseIds) :
          Qt_register_student_in_course(si, ci)

SpecRegister == Init /\ [][NextRegister]_vars

\* ==================================================================== claims
\* the courses a student's registration rows name
StudentsWithCourse(T, sid) == {r.course_id : r \in {x \in T.registrations : x.student_id = sid}}

\* C1: update_student with a new_id not yet in use, on a student that two
\* registration rows reference, returns without raising and leaves the student
\* row and both registration rows under the new id: no registration row keeps
\* the old id and both courses list the student under the new id.
C1_RenameMovesBothRegistrations ==
    [][\A id \in StudentIds, new \in StudentIds :
          ( /\ last'.op = "update_student" /\ last'.id = id /\ last'.arg = {new}
            /\ new # id
            /\ id \in Ids(con.students) /\ new \notin Ids(con.students)
            /\ RegsOfStudent(con.registrations, id) = 2 )
          => ( /\ last'.ok
               /\ new \in Ids(con'.students) /\ id \notin Ids(con'.students)
               /\ RegsOfStudent(con'.registrations, id) = 0
               /\ \A c \in Courses(con') :
                     c.course_id \in StudentsWithCourse(con, id)
                        => new \in Ids(c.enrolled_students) )]_vars

\* C2: an update_student, update_instructor or update_course called with a
\* new_id that raises leaves the tables the connection reads, and the tables a
\* later commit writes, exactly as they were before the call.
C2_FailedRenameChangesNothing ==
    [][( /\ last'.op \in {"update_student", "update_instructor", "update_course"}
         /\ last'.arg # {}
         /\ ~last'.ok )
       => con' = con]_vars

\* C3: delete_student(id) removes the student and every registration row of that
\* student and nothing else: no course lists the student any more, the course
\* rows, the other students and the other students' registrations are unchanged.
C3_DeleteStudentCascades ==
    [][\A id \in StudentIds :
          (last'.op = "delete_student" /\ last'.id = id)
          => ( /\ \A c \in Courses(con') : id \notin Ids(c.enrolled_students)
               /\ RegsOfStudent(con'.registrations, id) = 0
               /\ con'.courses = con.courses
               /\ con'.students = {s \in con.students : s.id # id}
               /\ {r \in con'.registrations : r.student_id # id}
                    = {r \in con.registrations : r.student_id # id} )]_vars

\* C3 witness: a delete_student of a student that had a registration returned,
\* and a registration of another student is still there.
C3_Witness ==
    /\ last.op = "delete_student" /\ last.ok /\ last.refs >= 1
    /\ last.id \notin Ids(con.students)
    /\ con.registrations # {}

\* C4: delete_instructor(id) of an instructor assigned to courses deletes no
\* course: every course row is still there with its id and name, the courses
\* that named the instructor have a NULL instructor_id and the course listing
\* shows no instructor for them; the other courses keep theirs.
C4_DeleteInstructorSetsNull ==
    [][\A id \in InstructorIds :
          (last'.op = "delete_instructor" /\ last'.id = id)
          => ( /\ con'.courses =
                    {IF c.instructor_id = {id} THEN [c EXCEPT !.instructor_id = {}] ELSE c
                     : c \in con.courses}
               /\ {<<c.id, c.name>> : c \in con'.courses} = {<<c.id, c.name>> : c \in con.courses}
               /\ \A c \in con.courses : c.instructor_id = {id} =>
                     \E l \in Courses(con') : l.course_id = c.id /\ l.instructor = {} )]_vars

\* C4 witness: a delete_instructor of an instructor that a course named
\* returned, and the course is still there.
C4_Witness ==
    /\ last.op = "delete_instructor" /\ last.ok /\ last.refs >= 1
    /\ con.courses # {}
    /\ \A c \in con.courses : c.instructor_id # {last.id}

\* C5: enroll(s, c) of an existing student and an existing course returns
\* without raising and leaves exactly one enrollment row for the pair, however
\* often it is called; when the pair is already enrolled the call changes nothing.
C5_EnrollIdempotent ==
    [][\A s \in StudentIds, c \in CourseIds :
          ( /\ last'.op = "enroll" /\ last'.id = s /\ last'.arg = {c}
            /\ s \in Ids(conn.students) /\ c \in Ids(conn.courses) )
          => LET pair == [student_id |-> s, course_id |-> c]
             IN  /\ last'.ok
                 /\ Cardinality({e \in conn'.enrollments :
                                   e.student_id = s /\ e.course_id = c}) = 1
                 /\ Cardinality({k \in 1..Len(ListEnrollments(conn', c)) :
                                   ListEnrollments(conn', c)[k].id = s}) = 1
                 /\ conn'.enrollments = conn.enrollments \cup {pair}
                 /\ pair \in conn.enrollments => (conn' = conn /\ dbdisk' = dbdisk)]_vars

\* C5 witness: an enroll of a pair that was already enrolled has returned.
C5_Witness ==
    /\ last.op = "enroll" /\ last.ok /\ last.refs = 1
    /\ [student_id |-> last.id, course_id |-> Val(last.arg)] \in conn.enrollments

\* C6: list_students holds exactly one row for every id that upsert_student has
\* stored, none for the others, and the row carries the name, age and e-mail of
\* the last upsert_student of that id that returned.
C6_UpsertStudentOverwrites ==
    LET L == ListStudents(conn)
    IN  \A id \in StudentIds :
           LET at == {k \in 1..Len(L) : L[k].id = id}
           IN  IF upserted[id] = {} THEN at = {}
               ELSE /\ Cardinality(at) = 1
                    /\ \A k \in at :
                          [name |-> L[k].name, age |-> L[k].age, email |-> L[k].email]
                             \in upserted[id]

\* C6 witness: an upsert_student over an existing row has returned, with two
\* students stored.
C6_Witness ==
    /\ last.op = "upsert_student" /\ last.ok /\ last.refs = 1
    /\ Len(ListStudents(conn)) = 2

\* no two rows of different ids share an e-mail
EmailsUnique(rows) == \A a \in rows, b \in rows : a.email = b.email => a.id = b.id

\* C7: in every state the create and update calls of either adapter reach, no
\* two student rows share an e-mail and no two instructor rows share an e-mail.
C7_EmailUniquePerKind ==
    /\ EmailsUnique(con.students) /\ EmailsUnique(con.instructors)
    /\ EmailsUnique(conn.students) /\ EmailsUnique(conn.instructors)

\* C8: upsert_student and upsert_instructor raise when the e-mail is held by a
\* row of the same table with another id, and then leave every table as it was;
\* otherwise (the e-mail is new, or held only by the row of the same id) they
\* return.
C8_UpsertDuplicateEmailRejected ==
    [][/\ \A id \in StudentIds, email \in Emails :
             (last'.op = "upsert_student" /\ last'.id = id /\ last'.arg = {email})
             => IF \E r \in conn.students : r.id # id /\ r.email = email
                THEN ~last'.ok /\ conn' = conn /\ dbdisk' = dbdisk
                ELSE last'.ok
       /\ \A id \in InstructorIds, email \in Emails :
             (last'.op = "upsert_instructor" /\ last'.id = id /\ last'.arg = {email})
             => IF \E r \in conn.instructors : r.id # id /\ r.email = email
                THEN ~last'.ok /\ conn' = conn /\ dbdisk' = dbdisk
                ELSE last'.ok]_vars

\* C8 witness: an upsert_student has raised on the e-mail of the other student.
C8_Witness ==
    /\ last.op = "upsert_student" /\ ~last.ok
    /\ \E r \in conn.students : r.id # last.id /\ r.email = Val(last.arg)

\* C9: every course's instructor_id is NULL or the id of an instructor row, in
\* both adapters, and an upsert_course or assign_instructor that names an
\* instructor id with no row raises and changes nothing.
C9_InstructorReferenceExists ==
    [][/\ \A c \in conn'.courses : \A i \in c.instructor_id : \E x \in conn'.instructors : x.id = i
       /\ \A c \in con'.courses : \A i \in c.instructor_id : \E x \in con'.instructors : x.id = i
       /\ \A i \in InstructorIds :
             ( /\ last'.op \in {"upsert_course", "assign_instructor"}
               /\ last'.arg = {i}
               /\ i \notin Ids(conn.instructors) )
             => (~last'.ok /\ conn' = conn)]_vars

\* every registration / enrollment row names a student row and a course row
RowsReferToRows(students, courses, rows) ==
    \A r \in rows : /\ \E s \in students : s.id = r.student_id
                    /\ \E c \in courses : c.id = r.course_id

\* C10: in every state, as the connection reads it and as committed, every
\* registration row (SqliteSchoolDB) and every enrollment row (DB) names a
\* student that exists and a course that exists.
C10_EnrollmentsReferToRows ==
    /\ RowsReferToRows(con.students, con.courses, con.registrations)
    /\ RowsReferToRows(disk.students, disk.courses, disk.registrations)
    /\ RowsReferToRows(conn.students, conn.courses, conn.enrollments)
    /\ RowsReferToRows(dbdisk.students, dbdisk.courses, dbdisk.enrollments)

\* C10 witness: an update_student with a new_id has moved registration rows to
\* another student before it raised.
C10_Witness ==
    /\ last.op = "update_student" /\ last.arg # {} /\ ~last.ok /\ last.refs >= 1
    /\ con.registrations # disk.registrations

\* C11: an assign_instructor (DB) or assign_instructor_to_course
\* (SqliteSchoolDB) whose course id names no course row raises: the caller is
\* told that the course was not found.
C11_AssignMissingCourseRaises ==
    [][/\ (last'.op = "assign_instructor" /\ last'.id \notin Ids(conn.courses)) => ~last'.ok
       /\ (last'.op = "assign_instructor_to_course" /\ last'.id \notin Ids(con.courses))
             => ~last'.ok]_vars

\* C12: an enroll whose student id or course id names no row raises and adds
\* no enrollment row: the tables, as read and as committed, stay as they were.
C12_EnrollMissingRefRaises ==
    [][\A s \in StudentIds, c \in CourseIds :
          ( /\ last'.op = "enroll" /\ last'.id = s /\ last'.arg = {c}
            /\ (s \notin Ids(conn.students) \/ c \notin Ids(conn.courses)) )
          => ( /\ ~last'.ok
               /\ conn'.enrollments = conn.enrollments
               /\ conn' = conn /\ dbdisk' = dbdisk )]_vars

\* C12 witness: an enroll of an existing student in a course that does not
\* exist has raised, and the student has no enrollment row for that course.
C12_Witness ==
    /\ last.op = "enroll" /\ ~last.ok
    /\ last.id \in Ids(conn.students)
    /\ Val(last.arg) \notin Ids(conn.courses)
    /\ [student_id |-> last.id, course_id |-> Val(last.arg)] \notin conn.enrollments

\* C13: an update_student, update_instructor or update_course whose new_id is
\* the id of another existing row of the same table raises, and the tables the
\* connection reads are exactly those before the call: both rows keep their ids
\* and fields, registrations and course instructor references are unchanged.
C13_RenameToUsedIdChangesNothing ==
    [][\A id \in StudentIds \cup InstructorIds \cup CourseIds,
          new \in StudentIds \cup InstructorIds \cup CourseIds :
          ( /\ last'.id = id /\ last'.arg = {new} /\ new # id
            /\ \/ last'.op = "update_student" /\ {id, new} \subseteq Ids(con.students)
               \/ last'.op = "update_instructor" /\ {id, new} \subseteq Ids(con.instructors)
               \/ last'.op = "update_course" /\ {id, new} \subseteq Ids(con.courses) )
          => (~last'.ok /\ con' = con)]_vars

\* C14: in every state every stored student row and every stored instructor
\* row, of either adapter, has an age of 0 or more.
C14_AgeNeverNegative ==
    \A r \in con.students \cup con.instructors \cup conn.students \cup conn.instructors :
       r.age >= 0

\* C15: delete_course(id) removes the course and every registration row of that
\* course and nothing else: no registration row names the course, every student
\* row is still there, the other courses and their registrations are unchanged.
C15_DeleteCourseCascades ==
    [][\A id \in CourseIds :
          (last'.op = "delete_course" /\ last'.id = id)
          => ( /\ last'.ok
               /\ RegsOfCourse(con'.registrations, id) = 0
               /\ \A c \in Courses(con') : c.course_id # id
               /\ con'.students = con.students
               /\ con'.courses = {c \in con.courses : c.id # id}
               /\ {r \in con'.registrations : r.course_id # id}
                    = {r \in con.registrations : r.course_id # id}
               /\ disk' = con' )]_vars

\* C15 witness: a delete_course of a course that had a registration returned,
\* and the students and a registration of the other course are still there.
C15_Witness ==
    /\ last.op = "delete_course" /\ last.ok /\ last.refs >= 1
    /\ last.id \notin Ids(con.courses)
    /\ con.students # {}
    /\ con.registrations # {}

\* a listing is in ascending order of its rows' primary identifier
SortedById(L) == \A j, k \in 1..Len(L) : j < k => L[j].id < L[k].id

\* C16: in every state every listing of either adapter is in ascending order of
\* the primary identifier: the students, instructors and courses properties of
\* SqliteSchoolDB, and list_students, list_instructors, list_courses and
\* list_enrollments (by student id) of DB.
C16_ListsOrderedById ==
    /\ \A L \in Students(con) : SortedById(L)
    /\ \A L \in Instructors(con) : SortedById(L)
    /\ \A L \in CoursesInOrder(con) : SortedById(L)
    /\ SortedById(ListStudents(conn))
    /\ SortedById(ListInstructors(conn))
    /\ SortedById(ListCourses(conn))
    /\ \A c \in CourseIds : SortedById(ListEnrollments(conn, c))

\* C17: in every state list_courses holds exactly one row for every course row
\* and no other row; the row of a course whose instructor_id is NULL has a NULL
\* instructor name and e-mail, the row of a course with an instructor has the
\* name and e-mail that instructor's row holds now.
C17_ListCoursesLeftJoin ==
    LET L == ListCourses(conn)
    IN  /\ Len(L) = Cardinality(conn.courses)
        /\ \A c \in conn.courses :
              /\ Cardinality({k \in 1..Len(L) : L[k].id = c.id}) = 1
              /\ \A k \in 1..Len(L) :
                    L[k].id = c.id
                    => /\ L[k].name = c.name
                       /\ IF c.instructor_id = {}
                          THEN L[k].instructor_name = {} /\ L[k].instructor_email = {}
                          ELSE \E i \in conn.instructors :
                                  /\ c.instructor_id = {i.id}
                                  /\ L[k].instructor_name = {i.name}
                                  /\ L[k].instructor_email = {i.email}

\* C17 witness: an upsert_instructor has overwritten the row of an instructor
\* that a course names, and another course has no instructor.
C17_Witness ==
    /\ last.op = "upsert_instructor" /\ last.ok /\ last.refs = 1
    /\ \E c \in conn.courses : c.instructor_id = {last.id}
    /\ \E c \in conn.courses : c.instructor_id = {}
    /\ Len(ListCourses(conn)) = 2

\* C18: a callback that _set_status scheduled never clears the text of a later
\* _set_status: when a callback runs after _set_status has been called again,
\* the status bar keeps the text it shows.
C18_TimerKeepsNewerStatus ==
    [][( /\ timers # <<>>
         /\ Len(timers') < Len(timers)
         /\ timers[NextTimer(timers)].stale )
       => status' = status]_vars

\* every student and every instructor School_DB holds, nested in a course or not
AllStudents(S) ==
    Members(S.students) \cup UNION {Members(c.enrolled_students) : c \in Members(S.courses)}
AllInstructors(S) ==
    Members(S.instructors) \cup UNION {c.instructor : c \in Members(S.courses)}

\* C19: for every Student, Instructor and Course that School_DB holds, from_dict
\* of its save_to_dict returns an object with the same attribute values, the
\* nested instructor and the nested students included; and the record a
\* save_to_file wrote is the one encoding the same lists again yields.
C19_SerializationRoundTrips ==
    /\ \A x \in AllStudents(school) : Student_from_dict(Student_save_to_dict(x)) = {x}
    /\ \A x \in AllInstructors(school) : Instructor_from_dict(Instructor_save_to_dict(x)) = {x}
    /\ \A x \in Members(school.courses) : Course_from_dict(Course_save_to_dict(x)) = {x}
    /\ last.op = "save_to_file" => file = {Dump(school)}

\* C19 witness: the lists were read back from a file, and hold a course with an
\* instructor and two enrolled students and a course without an instructor.
C19_Witness ==
    /\ last.op = "load_from_file" /\ last.ok
    /\ \E c \in Members(school.courses) : c.instructor # {} /\ Len(c.enrolled_students) = 2
    /\ \E c \in Members(school.courses) : c.instructor = {}

\* C20: a load_from_file that returns leaves in the three lists exactly the
\* entities of the file, in the order of the file, whatever the lists held
\* before; and a load_from_file of the file save_to_file wrote from the lists
\* as they are returns and leaves the lists as they are.
C20_LoadReplacesState ==
    [][/\ (last'.op = "load_from_file" /\ last'.ok)
             => ( /\ file # {}
                  /\ Dump(school') = Val(file)
                  /\ Len(school'.students) = Len(Val(file).students)
                  /\ Len(school'.instructors) = Len(Val(file).instructors)
                  /\ Len(school'.courses) = Len(Val(file).courses) )
       /\ (last'.op = "load_from_file" /\ file = {Dump(school)})
             => (last'.ok /\ school' = school)]_vars

\* C20 witness: a load_from_file has returned with fewer entities in the lists
\* than they held before the call: the student added after the save is gone.
C20_Witness ==
    /\ last.op = "load_from_file" /\ last.ok
    /\ last.refs = 2
    /\ Entities(school) = 1
    /\ file = {Dump(school)}

\* C21: every backup_to returns, leaves in the destination exactly the rows of
\* the four tables the source connection reads at the call, whether the
\* destination was fresh or held an earlier backup, and leaves the source as
\* it was.
C21_BackupCopiesStore ==
    [][last'.op = "backup_to"
       => (last'.ok /\ dest' = {con} /\ con' = con /\ disk' = disk)]_vars

\* a text of nothing but whitespace, and an e-mail with no "." after an "@"
Blank(s) == \A k \in 1..Len(s) : s[k] \in Whitespace
IllFormed(email) ==
    ~ \E i \in 1..Len(email), j \in 1..Len(email) : i < j /\ email[i] = "@" /\ email[j] = "."

\* the form of the last handler cannot be saved: its name is blank, or it is a
\* person's form and its e-mail is blank or ill-formed
BadForm(f) ==
    \/ Blank(f.name)
    \/ f.handler \in {"add_student", "add_instructor"} /\ (Blank(f.email) \/ IllFormed(f.email))

\* C22: a Save Student, Save Instructor or Save Course of the Tk window whose
\* name is empty or whitespace, or (for a person) whose e-mail is empty or
\* ill-formed, makes no call to the adapter and leaves the store as it was.
C22_BadFormNotSaved ==
    [][(ui'.handler \in {"add_student", "add_instructor", "save_course"} /\ BadForm(ui'))
       => (conn' = conn /\ dbdisk' = dbdisk /\ last' = last /\ ui'.box = {"warning"})]_vars

\* a student is stored, and the Save Student that followed was refused for
\* its ill-formed e-mail
C22_Witness ==
    /\ ui.handler = "add_student"
    /\ ~Blank(ui.name)
    /\ ui.email = <<"a", "@", "x">>
    /\ ui.box = {"warning"}
    /\ conn.students # {}
    /\ last.op = "upsert_student"

\* C23: each of the two validators, validate_email and is_valid_email, accepts
\* a text if and only if the whole of the text matches local@domain.tld, with
\* no character before or after it.
C23_ValidatorsMatchWholeText ==
    last.op \in {"validate_email", "is_valid_email"}
       => (last.ok <=> EMAIL_RE_fullmatch(last.arg))

\* C24: a step that replaces the instructor reference of a course that has
\* an instructor by a different instructor is a step of a handler that asked
\* the user for a confirmation (and went on because it was accepted).
C24_OverwriteAfterConfirmation ==
    [][(\E c \in conn.courses, d \in conn'.courses :
           /\ c.id = d.id
           /\ c.instructor_id # {}
           /\ d.instructor_id # {}
           /\ d.instructor_id # c.instructor_id)
       => ui'.asked]_vars

\* C25: when Assign Instructor of the Tk window sets the status to
\* 'Instructor assigned', the course it names holds the entered instructor;
\* and when the course id names no course, the handler shows an error.
C25_AssignedOnlyWhenSet ==
    [][(ui'.handler = "assign_instr" /\ last'.op = "assign_instructor"
        /\ (Len(timers') > Len(timers) \/ ui'.box # {}))
       => /\ status' = "Instructor assigned"
             => \E c \in conn'.courses : c.id = last'.id /\ c.instructor_id = last'.arg
          /\ last'.refs = 0 => ui'.box = {"error"}]_vars

\* C26: an Edit Selected Course whose instructor name is left blank, which
\* calls update_course(course_id, name=..., instructor_id=None), and returns,
\* leaves the course with no instructor.
C26_BlankNameUnassigns ==
    [][(ui'.handler = "edit_selected_course" /\ ui'.instructor = {}
        /\ last'.op = "update_course" /\ last'.ok)
       => \A c \in con'.courses :
             c.id = (IF last'.arg # {} THEN Val(last'.arg) ELSE last'.id) => c.instructor_id = {}]_vars

\* C27: in every state the Qt window's adds, edits and deletes reach, the
\* students, instructors and courses properties return without raising:
\* every stored row is accepted by the constructor of its class.
C27_ReadsReturn ==
    /\ students_property(con) # {}
    /\ instructors_property(con) # {}
    /\ courses_property(con) # {}

\* C28: when Register has read its student and its course (the store has
\* both, and no two students and no two courses share a name, so that the
\* listing's order is determined), the positions selected in the dropdowns
\* are within the listings and the entities read there are those whose
\* labels the dropdowns show at these positions.
C28_RegisterReadsWhatIsShown ==
    ( /\ ui.handler = "register_student_in_course"
      /\ ui.box # {"warning"}
      /\ \A x, y \in con.students \cup con.courses : x.name = y.name => x = y )
    => (ui.box # {"IndexError"} /\ \A k \in 1..2 : Ids(ui.read[k]) = Ids(ui.shown[k]))

\* C29: an upsert_student or upsert_course on an id that has a row leaves
\* every enrollment row as it was, and an upsert_instructor on an id that has
\* a row leaves every course's instructor reference as it was.
C29_UpsertKeepsReferences ==
    [][/\ (last'.op \in {"upsert_student", "upsert_course"} /\ last'.refs = 1)
          => conn'.enrollments = conn.enrollments
       /\ (last'.op = "upsert_instructor" /\ last'.refs = 1)
          => \A c \in conn.courses : \E d \in conn'.courses :
                d.id = c.id /\ d.instructor_id = c.instructor_id]_vars

\* an upsert_student has overwritten a student that is enrolled
C29_Witness ==
    /\ last.op = "upsert_student"
    /\ last.refs = 1
    /\ last.ok
    /\ \E e \in conn.enrollments : e.student_id = last.id
    /\ \E s \in conn.students : s.id = last.id /\ s.name = "Bob"

\* C30: a load_from_file that raises leaves the lists students, instructors
\* and courses exactly as they were before the call.
C30_FailedLoadChangesNothing ==
    [][(last'.op = "load_from_file" /\ ~last'.ok) => school' = school]_vars

====
